---- MODULE Spec2Model ----
(***************************************************************************)
(* autodocker: the multi-container build/run orchestration of              *)
(* src/autodocker.py (BuildManager, docker_worker, DockerManager,          *)
(* ContainerManager, ProgressManager, LogManager).                         *)
(*                                                                         *)
(* A task is one (platform, cmake version) pair of the configuration.  It  *)
(* is identified by its container name: the platform name, followed by     *)
(* "cmake" and the version unless the version is None.  Configurations are *)
(* taken with pairwise distinct platform names and cmake versions, so that *)
(* distinct tasks have distinct container names.                           *)
(*                                                                         *)
(* The container engine is the environment: a build or a run exits with    *)
(* any code of ExitCodes, opening the log file or launching the subprocess *)
(* may raise, and creating a task's log directory may raise.  The         *)
(* removal commands (docker rm -f, docker rmi -f) are recorded when they   *)
(* are issued; the code ignores their outcome.  LogManager() in a worker   *)
(* repeats the makedirs of the directory BuildManager.__init__ created and *)
(* is taken to succeed.  The verbose flag only adds console messages and   *)
(* is not modelled.                                                        *)
(*                                                                         *)
(* Spec is the orchestrator with its workers; there the console is the set *)
(* of messages handed to PrintManager.print.  SpecProgress drives the      *)
(* ProgressManager with any sequence of update_stage / increment calls.    *)
(* SpecPrint is the PrintManager at the level of its queue, its consumer   *)
(* thread and the two locks (PrintManager.lock, ProgressManager.lock),     *)
(* with callers that print, direct_print and redraw the bar in any order;  *)
(* SpecPrintFair adds the scheduling of the threads.  SpecStatus is        *)
(* BuildManager.update_status under its lock, SpecLocks adds that lock to  *)
(* SpecPrint, and SpecFair is Spec with the scheduling of its threads.     *)
(*                                                                         *)
(* SpecNames is the naming of the tasks and the failed-containers file at  *)
(* the level of their text: a text is a sequence of words, sanitize_name   *)
(* lowers the words and replaces the spaces, and the platforms only have   *)
(* pairwise different names as they are written in the configuration.      *)
(***************************************************************************)
EXTENDS Integers, Sequences, FiniteSets, TLC

\* ------------------------------------------------------------ bounds
MaxTasks == 2
\* most calls of the PrintManager and ProgressManager the callers make
MaxCalls == 3

\* ------------------------------------------------- program constants
BuildFailedCode == 125
RunFailedCode == 1
SuccessCode == 0
ErrorCode == 0 - 1

STAGES == <<"dockerfile", "build", "run", "test", "cleanup">>

None == "None"

\* the platform names, base images and cmake versions configurations use
PlatformNames == <<"ubuntu", "alma">>
Images == {"ubuntu", "redhat"}
CMakeVersions == <<"3.20", "3.28">>

Terminal == {"build_failed", "run_failed", "success", "error"}

\* exit codes a container-engine subprocess may return
ExitCodes == {SuccessCode, RunFailedCode, BuildFailedCode}

\* the threads that call PrintManager.print / direct_print and the
\* ProgressManager, the consumer thread, and the thread that calls stop()
Callers == {"worker1", "worker2"}
Threads == Callers \cup {"printer", "main"}
\* a thread that is not writing a message
NoMessage == <<>>

VARIABLES
    platforms,          \* config.platforms: records [name, image, depends]
    cmake_versions,     \* config.cmake_versions: list of versions
    RHEL_SUBSCRIPTION,  \* platform_utils.RHEL_SUBSCRIPTION is configured
    keepfailed,         \* -k / --keepfailed
    status,             \* BuildManager.status: container name -> entry
    current,            \* ProgressManager.current
    container_stages,   \* ProgressManager.container_stages
    total_containers,   \* ProgressManager.total_containers
    closed,             \* progress bar closed, print manager stopped
    threads,            \* BuildManager.threads, in start order
    wpc,                \* position of each docker_worker
    build_success,      \* docker_worker local, per worker
    run_success,        \* docker_worker local, per worker
    exc,                \* per worker, the exception being propagated
    engine,             \* per task, what was asked of the container engine
    notices,            \* messages handed to PrintManager.print
    manifest,           \* lines written to failed_containers.txt
    opc,                \* position of process_all_platforms
    ei,                 \* index of the next step of the platform loops
    ji,                 \* index of the thread being joined
    raised,             \* exception caught by process_all_platforms
    returned,           \* <<>> or <<exit code>> of process_all_platforms
    last_call,          \* SpecProgress: the last ProgressManager call made
    print_queue,        \* PrintManager.print_queue
    is_running,         \* PrintManager.is_running
    lock,               \* PrintManager.lock: None or the thread holding it
    plock,              \* ProgressManager.lock: None or the thread holding it
    tpc,                \* SpecPrint: position of each thread
    message,            \* the message a thread is writing (a local)
    calls,              \* SpecPrint: calls the callers have made so far
    console,            \* what has reached sys.stdout, in order
    before_stop,        \* messages put in the queue before stop() was called
    enqueued,           \* messages put in the queue so far
    status_lock,        \* BuildManager.status_lock: None or the holder
    upc,                \* SpecStatus: position of each update_status call
    kwargs,             \* update_status: the kwargs of the call in progress
    workers,            \* SpecNames: the workers started, with their arguments
    file,               \* SpecNames: the text of failed_containers.txt
    failed_containers   \* ContainerDebugger.failed_containers

vars == <<platforms, cmake_versions, RHEL_SUBSCRIPTION, keepfailed, status,
          current, container_stages, total_containers, closed, threads, wpc,
          build_success, run_success, engine, notices, manifest, opc, ei, ji,
          raised, returned, exc, last_call, print_queue, is_running, lock, plock,
          tpc, message, calls, console, before_stop, enqueued, status_lock,
          upc, kwargs, workers, file, failed_containers>>

cfgVars == <<platforms, cmake_versions, RHEL_SUBSCRIPTION, keepfailed,
             total_containers>>
orchVars == <<threads, opc, ei, ji, raised, returned, manifest, closed>>
workerLocals == <<build_success, run_success, exc>>
\* the variables of Spec
specVars == <<cfgVars, orchVars, workerLocals, status, current,
              container_stages, wpc, engine, notices>>
\* the variables of the PrintManager and of the two locks
printVars == <<print_queue, is_running, lock, plock, tpc, message, calls,
               console, before_stop, enqueued>>
\* the variables of update_status at the level of the status lock
statusVars == <<status_lock, upc, kwargs>>
\* what only the component specifications (SpecProgress, SpecPrint,
\* SpecStatus) change
\* the variables of the naming of the tasks and of the manifest text
nameVars == <<workers, file, failed_containers>>
componentVars == <<last_call, nameVars, printVars, statusVars, nameVars>>

\* ------------------------------------------------------ configuration

\* platform_utils.can_build_platform
can_build_platform(platform, subscription) ==
    ~(platform.image = "redhat" /\ ~subscription)

\* get_platform_cmake_versions that does not look at the dependencies
get_platform_cmake_versions_always(platform, versions) == versions

\* AutoDockerConfig.get_platform_cmake_versions
get_platform_cmake_versions(platform, versions) ==
    IF "cmake" \in platform.depends THEN versions ELSE <<None>>

\* get_container_name: platform name plus "-cmake-<version>" suffix
get_container_name(name, cmake_version) ==
    IF cmake_version # None THEN <<name, "cmake", cmake_version>> ELSE <<name>>

\* get_image_name
get_image_name(container_name) == <<"image">> \o container_name

\* every container name a configuration can produce
AllTasks ==
    { get_container_name(PlatformNames[p], v) :
        p \in DOMAIN PlatformNames,
        v \in {CMakeVersions[i] : i \in DOMAIN CMakeVersions} \cup {None} }

\* total_containers counted without the can_build_platform filter
TotalContainers_unfiltered(plats, versions, subscription) ==
    LET RECURSIVE Sum(_)
        Sum(i) == IF i = 0 THEN 0
                  ELSE Sum(i - 1) +
                       Len(get_platform_cmake_versions(plats[i], versions))
    IN Sum(Len(plats))

\* BuildManager.__init__: total_containers
TotalContainers(plats, versions, subscription) ==
    LET RECURSIVE Sum(_)
        Sum(i) == IF i = 0 THEN 0
                  ELSE Sum(i - 1) +
                       (IF can_build_platform(plats[i], subscription)
                        THEN Len(get_platform_cmake_versions(plats[i], versions))
                        ELSE 0)
    IN Sum(Len(plats))

\* ------------------------------------------------------ status map

\* dict.update
Merge(old, kw) ==
    [k \in (DOMAIN old) \cup (DOMAIN kw) |->
        IF k \in DOMAIN kw THEN kw[k] ELSE old[k]]

\* ContainerManager.update_status
update_status(st, name, kw) ==
    [n \in (DOMAIN st) \cup {name} |->
        IF n = name
        THEN Merge(IF name \in DOMAIN st THEN st[name] ELSE <<>>, kw)
        ELSE st[n]]

\* record_build_start recording the status of a task not yet building
record_build_start_pending(st, t) ==
    update_status(st, t,
        [status |-> "pending",
         image_name |-> get_image_name(t),
         debug_command |-> <<"docker run --rm -it --entrypoint /bin/bash",
                             get_image_name(t)>>])

\* ContainerManager.record_build_start
record_build_start(st, t) ==
    update_status(st, t,
        [status |-> "building",
         image_name |-> get_image_name(t),
         debug_command |-> <<"docker run --rm -it --entrypoint /bin/bash",
                             get_image_name(t)>>])

\* record_build_failure recording the generic failure code and a run log
record_build_failure_generic(st, t, build_log) ==
    update_status(st, t,
        [status |-> "build_failed", code |-> RunFailedCode,
         build_log |-> build_log, run_log |-> build_log])

\* ContainerManager.record_build_failure
record_build_failure(st, t, build_log) ==
    update_status(st, t,
        [status |-> "build_failed", code |-> BuildFailedCode,
         build_log |-> build_log])

\* record_run_completion with the two outcomes exchanged
record_run_completion_swapped(st, t, success, run_log) ==
    update_status(st, t,
        [status |-> IF success THEN "run_failed" ELSE "success",
         code |-> IF success THEN RunFailedCode ELSE SuccessCode,
         run_log |-> run_log])

\* ContainerManager.record_run_completion
record_run_completion(st, t, success, run_log) ==
    update_status(st, t,
        [status |-> IF success THEN "success" ELSE "run_failed",
         code |-> IF success THEN SuccessCode ELSE RunFailedCode,
         run_log |-> run_log])

\* record_error without the exception's message
record_error_no_message(st, t, error) ==
    update_status(st, t, [status |-> "error", code |-> ErrorCode])

\* an except clause that only prints and records nothing
record_error_lost(st, t, error) == st

\* ContainerManager.record_error
record_error(st, t, error) ==
    update_status(st, t,
        [status |-> "error", code |-> ErrorCode, error |-> error])

\* LogManager.get_log_path (the timestamp is not modelled)
get_log_path(t, log_type) == <<"logs", t, log_type>>

\* ------------------------------------------------ progress and engine

\* update_stage that records nothing
update_stage_dropped(stages, t, stage) == stages

\* update_stage that replaces the container's stage set
update_stage_overwrite(stages, t, stage) ==
    [n \in (DOMAIN stages) \cup {t} |->
        IF n = t THEN {stage} ELSE stages[n]]

\* ProgressManager.update_stage
update_stage(stages, t, stage) ==
    [n \in (DOMAIN stages) \cup {t} |->
        IF n = t
        THEN (IF t \in DOMAIN stages THEN stages[t] ELSE {}) \cup {stage}
        ELSE stages[n]]

\* increment counting a worker twice
increment_twice(cur) == cur + 2

\* increment that leaves the counter alone
increment_lost(cur) == cur

\* ProgressManager.increment
increment(cur) == cur + 1

\* a command issued for task t
Issue(eng, t, cmds) == [eng EXCEPT ![t] = @ \o cmds]

\* DockerManager.cleanup_existing: docker rm -f <container>
cleanup_existing == << [op |-> "rm"] >>

\* DockerManager.cleanup_container: docker rm -f, docker rmi -f
cleanup_container == << [op |-> "rm"], [op |-> "rmi"] >>

\* run_container cleaning up whatever keepfailed says
CleanupOnFailure_always(keep) == cleanup_container

\* run_container with the keepfailed test inverted
CleanupOnFailure_inverted(keep) == IF keep THEN cleanup_container ELSE <<>>

\* DockerManager.run_container: clean up on failure unless keepfailed
CleanupOnFailure(keep) == IF ~keep THEN cleanup_container ELSE <<>>

\* ---------------------------------------------------------------- Init

Init ==
    /\ \E n \in 1..Len(PlatformNames) :
          \E image \in [1..n -> Images], depends \in [1..n -> {{}, {"cmake"}}] :
             platforms = [p \in 1..n |-> [name |-> PlatformNames[p],
                                          image |-> image[p],
                                          depends |-> depends[p]]]
    /\ cmake_versions \in { SubSeq(CMakeVersions, 1, n) : n \in 0..Len(CMakeVersions) }
    /\ RHEL_SUBSCRIPTION \in BOOLEAN
    /\ keepfailed \in BOOLEAN
    /\ total_containers =
          TotalContainers(platforms, cmake_versions, RHEL_SUBSCRIPTION)
    /\ total_containers <= MaxTasks
    /\ status = <<>>
    /\ current = 0
    /\ container_stages = <<>>
    /\ closed = FALSE
    /\ threads = <<>>
    /\ wpc = [t \in AllTasks |-> "idle"]
    /\ build_success = [t \in AllTasks |-> FALSE]
    /\ run_success = [t \in AllTasks |-> FALSE]
    /\ exc = [t \in AllTasks |-> None]
    /\ engine = [t \in AllTasks |-> <<>>]
    /\ notices = {}
    /\ manifest = {}
    /\ opc = "run"
    /\ ei = 1
    /\ ji = 1
    /\ raised = "none"
    /\ returned = <<>>
    /\ last_call = <<>>
    /\ print_queue = <<>>
    /\ is_running = TRUE
    /\ lock = None
    /\ plock = None
    /\ tpc = [th \in Threads |->
                 IF th = "printer" THEN "loop"
                 ELSE IF th = "main" THEN "running" ELSE "idle"]
    /\ message = [th \in Threads |-> NoMessage]
    /\ calls = 0
    /\ console = <<>>
    /\ before_stop = {}
    /\ enqueued = {}
    /\ status_lock = None
    /\ upc = [t \in AllTasks |-> "idle"]
    /\ kwargs = [t \in AllTasks |-> <<>>]
    /\ workers = <<>>
    /\ file = <<>>
    /\ failed_containers = <<>>

\* ------------------------------------------------------- docker_worker

\* docker_worker: container.record_build_start()
RecordBuildStart(t) ==
    /\ wpc[t] = "record_build_start"
    /\ status' = record_build_start(status, t)
    /\ wpc' = [wpc EXCEPT ![t] = "build_image"]
    /\ UNCHANGED <<cfgVars, componentVars, orchVars, workerLocals, current,
                   container_stages, engine, notices>>

\* DockerManager.build_image up to the launch of "docker build":
\* update_stage, get_log_path (os.makedirs may raise, outside the try),
\* open of the log file and subprocess.run (may raise, inside the try)
BuildImageStart(t) ==
    /\ wpc[t] = "build_image"
    /\ container_stages' = update_stage(container_stages, t, "build")
    /\ \/ /\ wpc' = [wpc EXCEPT ![t] = "except"]
          /\ exc' = [exc EXCEPT ![t] = "makedirs failed"]
          /\ UNCHANGED <<engine, notices, build_success>>
       \/ /\ engine' = Issue(engine, t, << [op |-> "build_raise"] >>)
          /\ notices' = notices \cup {<<"Error building", t>>}
          /\ build_success' = [build_success EXCEPT ![t] = FALSE]
          /\ wpc' = [wpc EXCEPT ![t] = "after_build"]
          /\ UNCHANGED exc
       \/ /\ engine' = Issue(engine, t, << [op |-> "build"] >>)
          /\ wpc' = [wpc EXCEPT ![t] = "build_wait"]
          /\ UNCHANGED <<notices, build_success, exc>>
    /\ UNCHANGED <<cfgVars, componentVars, orchVars, run_success, status, current>>

\* DockerManager.build_image: the build subprocess exits with code c
BuildImageExit(t) ==
    /\ wpc[t] = "build_wait"
    /\ \E c \in ExitCodes :
          /\ engine' = Issue(engine, t, << [op |-> "build_exit", code |-> c] >>)
          /\ build_success' = [build_success EXCEPT ![t] = (c = 0)]
          /\ notices' = IF c # 0 THEN notices \cup {<<"Build failed", t>>}
                        ELSE notices
    /\ wpc' = [wpc EXCEPT ![t] = "after_build"]
    /\ UNCHANGED <<cfgVars, componentVars, orchVars, run_success, exc, status,
                   current, container_stages>>

\* docker_worker without the return after record_build_failure
AfterBuildFailure_no_return == "record_run_completion"

\* docker_worker: where the worker goes after record_build_failure (return)
AfterBuildFailure == "finally"

\* docker_worker running the container whatever the build returned
RunAttempted_always(ok) == TRUE

\* docker_worker: run_container is reached only if build_success
RunAttempted(ok) == ok

\* docker_worker: if not build_success: record_build_failure; return
RecordBuildFailure(t) ==
    /\ wpc[t] = "after_build"
    /\ ~build_success[t]
    /\ status' = record_build_failure(status, t, get_log_path(t, "build"))
    /\ wpc' = [wpc EXCEPT ![t] = AfterBuildFailure]
    /\ UNCHANGED <<cfgVars, componentVars, orchVars, workerLocals, current,
                   container_stages, engine, notices>>

\* DockerManager.run_container up to the launch of "docker run":
\* update_stage, cleanup_existing, get_log_path (may raise, outside the
\* try), open of the log file and subprocess.run (may raise, inside the
\* try: cleanup unless keepfailed, return False)
RunContainerStart(t) ==
    /\ wpc[t] = "after_build"
    /\ RunAttempted(build_success[t])
    /\ container_stages' = update_stage(container_stages, t, "run")
    /\ \/ /\ engine' = Issue(engine, t, cleanup_existing)
          /\ wpc' = [wpc EXCEPT ![t] = "except"]
          /\ exc' = [exc EXCEPT ![t] = "makedirs failed"]
          /\ UNCHANGED <<notices, run_success>>
       \/ /\ engine' = Issue(engine, t,
                 cleanup_existing \o << [op |-> "run_raise"] >>
                     \o CleanupOnFailure(keepfailed))
          /\ notices' = notices \cup {<<"Error running", t>>}
          /\ run_success' = [run_success EXCEPT ![t] = FALSE]
          /\ wpc' = [wpc EXCEPT ![t] = "record_run_completion"]
          /\ UNCHANGED exc
       \/ /\ engine' = Issue(engine, t, cleanup_existing \o << [op |-> "run"] >>)
          /\ wpc' = [wpc EXCEPT ![t] = "run_wait"]
          /\ UNCHANGED <<notices, run_success, exc>>
    /\ UNCHANGED <<cfgVars, componentVars, orchVars, build_success, status, current>>

\* DockerManager.run_container: the run subprocess exits with code c
RunContainerExit(t) ==
    /\ wpc[t] = "run_wait"
    /\ \E c \in ExitCodes :
          /\ engine' = Issue(engine, t,
                 << [op |-> "run_exit", code |-> c] >>
                     \o (IF c # 0 THEN CleanupOnFailure(keepfailed) ELSE <<>>))
          /\ run_success' = [run_success EXCEPT ![t] = (c = 0)]
          /\ notices' = IF c # 0 THEN notices \cup {<<"Run failed", t>>}
                        ELSE notices
    /\ wpc' = [wpc EXCEPT ![t] = "record_run_completion"]
    /\ UNCHANGED <<cfgVars, componentVars, orchVars, build_success, exc, status,
                   current, container_stages>>

\* docker_worker: record_run_completion and the succeeded/failed message
RecordRunCompletion(t) ==
    /\ wpc[t] = "record_run_completion"
    /\ status' = record_run_completion(status, t, run_success[t],
                                       get_log_path(t, "run"))
    /\ notices' = notices \cup
          {<<IF run_success[t] THEN "succeeded" ELSE "failed", t>>}
    /\ wpc' = [wpc EXCEPT ![t] = "finally"]
    /\ UNCHANGED <<cfgVars, componentVars, orchVars, workerLocals, current,
                   container_stages, engine>>

\* an except clause that ends with a raise
AfterHandler_reraise(e) == e

\* docker_worker: what is propagated after the except clause: the clause
\* has no raise, the exception is handled
AfterHandler(e) == None

\* docker_worker: except Exception as e: record_error(e), message
RecordError(t) ==
    /\ wpc[t] = "except"
    /\ status' = record_error(status, t, exc[t])
    /\ notices' = notices \cup {<<"Error processing", t>>}
    /\ exc' = [exc EXCEPT ![t] = AfterHandler(exc[t])]
    /\ wpc' = [wpc EXCEPT ![t] = "finally"]
    /\ UNCHANGED <<cfgVars, componentVars, orchVars, build_success,
                   run_success, current, container_stages, engine>>

\* docker_worker: finally: progress_manager.increment()
Finally(t) ==
    /\ wpc[t] = "finally"
    /\ current' = increment(current)
    /\ wpc' = [wpc EXCEPT ![t] = "done"]
    /\ UNCHANGED <<cfgVars, componentVars, orchVars, workerLocals, status,
                   container_stages, engine, notices>>

Worker(t) ==
    \/ RecordBuildStart(t)
    \/ BuildImageStart(t)
    \/ BuildImageExit(t)
    \/ RecordBuildFailure(t)
    \/ RunContainerStart(t)
    \/ RunContainerExit(t)
    \/ RecordRunCompletion(t)
    \/ RecordError(t)
    \/ Finally(t)

\* ---------------------------------------------------------- BuildManager

\* process_all_platforms and process_platform: the steps of the loops
\* "for platform in platforms" and "for cmake_version in ...", in order:
\* a skip notice for a rejected platform, a launch for each version
Enumeration(plats, versions, subscription) ==
    LET Launches(p) ==
            [i \in 1..Len(get_platform_cmake_versions(plats[p], versions)) |->
                [kind |-> "launch",
                 name |-> get_container_name(plats[p].name,
                     get_platform_cmake_versions(plats[p], versions)[i])]]
        RECURSIVE Steps(_)
        Steps(p) == IF p = 0 THEN <<>>
                    ELSE Steps(p - 1) \o
                         (IF can_build_platform(plats[p], subscription)
                          THEN Launches(p)
                          ELSE << [kind |-> "skip", name |-> plats[p].name] >>)
    IN Steps(Len(plats))

Steps == Enumeration(platforms, cmake_versions, RHEL_SUBSCRIPTION)

\* the eligible tasks of the configuration, by container name
Tasks ==
    LET steps == Steps
    IN { steps[i].name : i \in { k \in DOMAIN steps : steps[k].kind = "launch" } }

\* BuildManager.process_platform: platform rejected by can_build_platform
SkipPlatform ==
    /\ opc = "run"
    /\ ei <= Len(Steps)
    /\ Steps[ei].kind = "skip"
    /\ notices' = notices \cup {<<"Skipping platform", Steps[ei].name>>}
    /\ ei' = ei + 1
    /\ UNCHANGED <<cfgVars, componentVars, threads, opc, ji, raised, returned, manifest,
                   closed, workerLocals, status, current, container_stages,
                   engine, wpc>>

\* process_all_platforms without its except clause: the exception leaves
\* through the finally clause and nothing is returned
CatchException_reraise(kind, printed) ==
    /\ raised' = kind
    /\ notices' = notices \cup printed
    /\ returned' = <<>>
    /\ opc' = "finally"

\* process_all_platforms: except Exception: message, return 1, after the
\* try block has put the messages of printed in the queue
CatchException(kind, printed) ==
    /\ raised' = kind
    /\ notices' = notices \cup printed \cup {<<"Error", kind>>}
    /\ returned' = <<1>>
    /\ opc' = "finally"

\* BuildManager.process_platform: one iteration of the cmake version loop:
\* create_dockerfile (may raise), Thread(target=docker_worker).start()
LaunchWorker ==
    /\ opc = "run"
    /\ ei <= Len(Steps)
    /\ Steps[ei].kind = "launch"
    /\ \/ /\ threads' = Append(threads, Steps[ei].name)
          /\ wpc' = [wpc EXCEPT ![Steps[ei].name] = "record_build_start"]
          /\ ei' = ei + 1
          /\ UNCHANGED <<opc, raised, returned, notices>>
       \/ /\ CatchException("create_dockerfile", {})
          /\ UNCHANGED <<threads, wpc, ei>>
    /\ UNCHANGED <<cfgVars, componentVars, ji, manifest, closed, workerLocals, status,
                   current, container_stages, engine>>

\* thread.join() returning while the thread is still running
Joined_early(t) == TRUE

\* thread.join() that never returns
Joined_never(t) == FALSE

\* Thread.join: returns once the thread has ended
Joined(t) == wpc[t] = "done"

\* process_all_platforms: for thread in self.threads: thread.join()
JoinThread ==
    /\ opc = "run"
    /\ ei > Len(Steps)
    /\ ji <= Len(threads)
    /\ Joined(threads[ji])
    /\ ji' = ji + 1
    /\ UNCHANGED <<cfgVars, componentVars, threads, opc, ei, raised, returned, manifest,
                   closed, workerLocals, status, current, container_stages,
                   engine, wpc, notices>>

\* LogManager.write_failed_containers: the containers it lists
FailedContainers(st) ==
    { name \in DOMAIN st : st[name].status = "build_failed" }

\* get_image_name_from_container: the parts of the container name, split
\* at "cmake" and joined again
get_image_name_from_container(container_name) == container_name

\* LogManager.write_failed_containers: one line of failed_containers.txt
ManifestLine(name) ==
    <<name, "docker run --rm -it --entrypoint /bin/bash",
      get_image_name_from_container(name)>>

\* process_all_platforms after the joins: separator, status print,
\* write_failed_containers (open may raise), return 1 or 0
Report ==
    /\ opc = "run"
    /\ ei > Len(Steps)
    /\ ji > Len(threads)
    /\ IF FailedContainers(status) # {}
       THEN \/ /\ manifest' = { ManifestLine(n) : n \in FailedContainers(status) }
               /\ notices' = notices \cup {<<"Build Status", status>>,
                                           <<"Failed containers", FailedContainers(status)>>}
               /\ returned' = <<1>>
               /\ opc' = "finally"
               /\ UNCHANGED raised
            \/ /\ CatchException("open", {<<"Build Status", status>>})
               /\ UNCHANGED manifest
       ELSE /\ notices' = notices \cup {<<"Build Status", status>>}
            /\ returned' = <<0>>
            /\ opc' = "finally"
            /\ UNCHANGED <<manifest, raised>>
    /\ UNCHANGED <<cfgVars, componentVars, threads, ei, ji, closed, workerLocals, status,
                   current, container_stages, engine, wpc>>

\* process_all_platforms: finally: join(timeout=1) of the threads still
\* alive, progress_manager.close(), print_manager.stop(); then the return
FinallyClose ==
    /\ opc = "finally"
    /\ closed' = TRUE
    /\ opc' = "done"
    /\ UNCHANGED <<cfgVars, componentVars, threads, ei, ji, raised, returned, manifest,
                   workerLocals, status, current, container_stages, engine,
                   wpc, notices>>

Orchestrator ==
    \/ SkipPlatform
    \/ LaunchWorker
    \/ JoinThread
    \/ Report
    \/ FinallyClose

Next ==
    \/ Orchestrator
    \/ \E t \in AllTasks : Worker(t)

Spec == Init /\ [][Next]_vars

\* some thread that can take a step is scheduled, and a subprocess that is
\* the only thing that can go on exits
SpecFair == Spec /\ WF_vars(Next)

\* ------------------------------------- ProgressManager under any caller

\* the stage names
StageNames == { STAGES[i] : i \in DOMAIN STAGES }

\* container_stages has the pair (name, stage)
Entered(stages, name, stage) ==
    name \in DOMAIN stages /\ stage \in stages[name]

\* A ProgressManager for one container per platform name, no cmake
\* dependency, so that the container names do not depend on MaxTasks.
InitProgress ==
    /\ Init
    /\ Len(platforms) = Len(PlatformNames)
    /\ \A p \in DOMAIN platforms :
          platforms[p].image = "ubuntu" /\ platforms[p].depends = {}
    /\ cmake_versions = <<>>
    /\ ~RHEL_SUBSCRIPTION
    /\ ~keepfailed

\* a call of ProgressManager.update_stage, with any container and stage
UpdateStageCall(name, stage) ==
    /\ container_stages' = update_stage(container_stages, name, stage)
    /\ last_call' = <<"update_stage", name, stage,
                      Entered(container_stages, name, stage)>>
    /\ UNCHANGED <<cfgVars, orchVars, workerLocals, status, current, wpc,
                   engine, notices, printVars, statusVars, nameVars>>

\* a call of ProgressManager.increment; the callers make one per container
IncrementCall ==
    /\ current < total_containers
    /\ current' = increment(current)
    /\ last_call' = <<"increment">>
    /\ UNCHANGED <<cfgVars, orchVars, workerLocals, status, container_stages,
                   wpc, engine, notices, printVars, statusVars, nameVars>>

NextProgress ==
    \/ \E name \in Tasks, stage \in StageNames : UpdateStageCall(name, stage)
    \/ IncrementCall

SpecProgress == InitProgress /\ [][NextProgress]_vars

\* ------------------------------ update_status under the status lock

\* a threading.Lock that is taken whether or not it is held
LockFree_ignored(l) == TRUE

\* a threading.Lock can be acquired
LockFree(l) == l = None

\* the record_* calls docker_worker makes
StatusCalls == {"record_build_start", "record_build_failure",
                "record_run_success", "record_run_failure", "record_error"}

\* the kwargs a record_* method of the ContainerManager of t passes to
\* update_status
KwargsOf(call, t) ==
    LET st == IF call = "record_build_start" THEN record_build_start(<<>>, t)
              ELSE IF call = "record_build_failure"
                   THEN record_build_failure(<<>>, t, get_log_path(t, "build"))
              ELSE IF call = "record_run_success"
                   THEN record_run_completion(<<>>, t, TRUE, get_log_path(t, "run"))
              ELSE IF call = "record_run_failure"
                   THEN record_run_completion(<<>>, t, FALSE, get_log_path(t, "run"))
              ELSE record_error(<<>>, t, "makedirs failed")
    IN st[t]

\* docker_worker: record_build_start comes first, one of the other calls
\* follows it and is the last
CallAllowed(call, t) ==
    IF t \notin DOMAIN status THEN call = "record_build_start"
    ELSE status[t].status = "building" /\ call # "record_build_start"

InitStatus == InitProgress

\* the worker of t calls a record_* method, which calls update_status
StatusCall(t, call) ==
    /\ upc[t] = "idle"
    /\ CallAllowed(call, t)
    /\ kwargs' = [kwargs EXCEPT ![t] = KwargsOf(call, t)]
    /\ upc' = [upc EXCEPT ![t] = "acquire"]
    /\ UNCHANGED <<specVars, last_call, nameVars, printVars, status_lock>>

\* update_status: with self.status_lock
AcquireStatusLock(t) ==
    /\ upc[t] = "acquire"
    /\ LockFree(status_lock)
    /\ status_lock' = t
    /\ upc' = [upc EXCEPT ![t] = "check"]
    /\ UNCHANGED <<specVars, last_call, nameVars, printVars, kwargs>>

\* update_status: if name not in self.status: self.status[name] = {}
CheckExists(t) ==
    /\ upc[t] = "check"
    /\ status' = IF t \in DOMAIN status THEN status
                 ELSE [n \in (DOMAIN status) \cup {t} |->
                          IF n = t THEN <<>> ELSE status[n]]
    /\ upc' = [upc EXCEPT ![t] = "merge"]
    /\ UNCHANGED <<cfgVars, orchVars, workerLocals, current, container_stages,
                   wpc, engine, notices, last_call, nameVars, printVars, status_lock,
                   kwargs>>

\* update_status: self.status[name].update(kwargs)
MergeFields(t) ==
    /\ upc[t] = "merge"
    /\ status' = [status EXCEPT ![t] = Merge(@, kwargs[t])]
    /\ upc' = [upc EXCEPT ![t] = "release"]
    /\ UNCHANGED <<cfgVars, orchVars, workerLocals, current, container_stages,
                   wpc, engine, notices, last_call, nameVars, printVars, status_lock,
                   kwargs>>

\* update_status: the end of the with block
ReleaseStatusLock(t) ==
    /\ upc[t] = "release"
    /\ status_lock' = None
    /\ kwargs' = [kwargs EXCEPT ![t] = <<>>]
    /\ upc' = [upc EXCEPT ![t] = "idle"]
    /\ UNCHANGED <<specVars, last_call, nameVars, printVars>>

UpdateStatus(t) ==
    \/ \E call \in StatusCalls : StatusCall(t, call)
    \/ AcquireStatusLock(t)
    \/ CheckExists(t)
    \/ MergeFields(t)
    \/ ReleaseStatusLock(t)

NextStatus == \E t \in Tasks : UpdateStatus(t)

SpecStatus == InitStatus /\ [][NextStatus]_vars

\* ------------------------------- PrintManager and the two display locks

\* a consumer loop that looks at the flag only
LoopContinues_flag_only(running, queue) == running

\* a consumer loop that never ends
LoopContinues_forever(running, queue) == TRUE

\* _printer_worker: while self.is_running or not self.print_queue.empty()
LoopContinues(running, queue) == running \/ queue # <<>>

\* the process has not ended
Alive == tpc["main"] # "exited"

\* the message of caller c in the k-th call made
Message(c, k) == <<c, k>>

\* the messages whose write to the console has ended
Written == { console[i][1] : i \in { k \in DOMAIN console : console[k][2] = "end" } }

InitPrint == InitProgress

\* PrintManager.print: print_queue.put(str(message))
PrintCall(c) ==
    /\ Alive
    /\ tpc[c] = "idle"
    /\ calls < MaxCalls
    /\ calls' = calls + 1
    /\ print_queue' = Append(print_queue, Message(c, calls'))
    /\ before_stop' = IF tpc["main"] = "running"
                      THEN before_stop \cup {Message(c, calls')}
                      ELSE before_stop
    /\ enqueued' = enqueued \cup {Message(c, calls')}
    /\ UNCHANGED <<specVars, last_call, nameVars, statusVars, is_running, lock, plock, tpc,
                   message, console>>

\* PrintManager.direct_print is called: the caller goes for the lock
DirectPrintCall(c) ==
    /\ Alive
    /\ tpc[c] = "idle"
    /\ calls < MaxCalls
    /\ calls' = calls + 1
    /\ message' = [message EXCEPT ![c] = Message(c, calls')]
    /\ tpc' = [tpc EXCEPT ![c] = "lock"]
    /\ UNCHANGED <<specVars, last_call, nameVars, statusVars, print_queue, is_running, lock, plock,
                   console, before_stop, enqueued>>

\* ProgressManager.update_stage / increment: with self.lock, the bar is
\* being redrawn (set_postfix_str, update)
RedrawStart(c) ==
    /\ Alive
    /\ tpc[c] = "idle"
    /\ calls < MaxCalls
    /\ LockFree(plock)
    /\ calls' = calls + 1
    /\ plock' = c
    /\ tpc' = [tpc EXCEPT ![c] = "redraw"]
    /\ UNCHANGED <<specVars, last_call, nameVars, statusVars, print_queue, is_running, lock,
                   message, console, before_stop, enqueued>>

\* a redraw that takes PrintManager.lock before it releases its own lock
RedrawEnd_inside_output_lock(c) ==
    /\ Alive
    /\ tpc[c] = "redraw"
    /\ LockFree(lock)
    /\ plock' = None
    /\ tpc' = [tpc EXCEPT ![c] = "idle"]
    /\ UNCHANGED <<specVars, last_call, nameVars, statusVars, print_queue, is_running, lock, calls,
                   message, console, before_stop, enqueued>>

\* ProgressManager.update_stage / increment: the redraw ends, lock released
RedrawEnd(c) ==
    /\ Alive
    /\ tpc[c] = "redraw"
    /\ plock' = None
    /\ tpc' = [tpc EXCEPT ![c] = "idle"]
    /\ UNCHANGED <<specVars, last_call, nameVars, statusVars, print_queue, is_running, lock, calls,
                   message, console, before_stop, enqueued>>

\* with self.lock: (PrintManager.lock) in _printer_worker and direct_print
AcquireLock(th) ==
    /\ Alive
    /\ tpc[th] = "lock"
    /\ LockFree(lock)
    /\ lock' = th
    /\ tpc' = [tpc EXCEPT ![th] = "clear"]
    /\ UNCHANGED <<specVars, last_call, nameVars, statusVars, print_queue, is_running, plock, calls,
                   message, console, before_stop, enqueued>>

\* self.progress_manager.clear(): takes and releases ProgressManager.lock
Clear(th) ==
    /\ Alive
    /\ tpc[th] = "clear"
    /\ LockFree(plock)
    /\ tpc' = [tpc EXCEPT ![th] = "write"]
    /\ UNCHANGED <<specVars, last_call, nameVars, statusVars, print_queue, is_running, lock, plock,
                   calls, message, console, before_stop, enqueued>>

\* sys.stdout.write(message + '\n'): the first part reaches the console
WriteStart(th) ==
    /\ Alive
    /\ tpc[th] = "write"
    /\ console' = Append(console, <<message[th], "start">>)
    /\ tpc' = [tpc EXCEPT ![th] = "flush"]
    /\ UNCHANGED <<specVars, last_call, nameVars, statusVars, print_queue, is_running, lock, plock,
                   calls, message, before_stop, enqueued>>

\* the rest of the message reaches the console; sys.stdout.flush()
WriteEnd(th) ==
    /\ Alive
    /\ tpc[th] = "flush"
    /\ console' = Append(console, <<message[th], "end">>)
    /\ tpc' = [tpc EXCEPT ![th] = "refresh"]
    /\ UNCHANGED <<specVars, last_call, nameVars, statusVars, print_queue, is_running, lock, plock,
                   calls, message, before_stop, enqueued>>

\* self.progress_manager.refresh(), then PrintManager.lock is released;
\* the consumer calls task_done() and goes round its loop
Refresh(th) ==
    /\ Alive
    /\ tpc[th] = "refresh"
    /\ LockFree(plock)
    /\ lock' = None
    /\ message' = [message EXCEPT ![th] = NoMessage]
    /\ tpc' = [tpc EXCEPT ![th] = IF th = "printer" THEN "loop" ELSE "idle"]
    /\ UNCHANGED <<specVars, last_call, nameVars, statusVars, print_queue, is_running, plock, calls,
                   console, before_stop, enqueued>>

\* _printer_worker: the loop test
LoopTest ==
    /\ Alive
    /\ tpc["printer"] = "loop"
    /\ tpc' = [tpc EXCEPT !["printer"] =
                  IF LoopContinues(is_running, print_queue)
                  THEN "get" ELSE "dead"]
    /\ UNCHANGED <<specVars, last_call, nameVars, statusVars, print_queue, is_running, lock, plock,
                   calls, message, console, before_stop, enqueued>>

\* a consumer that takes the newest message of the queue
Get_newest ==
    /\ Alive
    /\ tpc["printer"] = "get"
    /\ IF print_queue # <<>>
       THEN /\ message' = [message EXCEPT !["printer"] = print_queue[Len(print_queue)]]
            /\ print_queue' = SubSeq(print_queue, 1, Len(print_queue) - 1)
            /\ tpc' = [tpc EXCEPT !["printer"] = "lock"]
       ELSE /\ tpc' = [tpc EXCEPT !["printer"] = "loop"]
            /\ UNCHANGED <<message, print_queue>>
    /\ UNCHANGED <<specVars, last_call, nameVars, statusVars, is_running, lock, plock, calls,
                   console, before_stop, enqueued>>

\* _printer_worker: print_queue.get(timeout=0.1), Empty -> continue
Get ==
    /\ Alive
    /\ tpc["printer"] = "get"
    /\ IF print_queue # <<>>
       THEN /\ message' = [message EXCEPT !["printer"] = Head(print_queue)]
            /\ print_queue' = Tail(print_queue)
            /\ tpc' = [tpc EXCEPT !["printer"] = "lock"]
       ELSE /\ tpc' = [tpc EXCEPT !["printer"] = "loop"]
            /\ UNCHANGED <<message, print_queue>>
    /\ UNCHANGED <<specVars, last_call, nameVars, statusVars, is_running, lock, plock, calls,
                   console, before_stop, enqueued>>

\* PrintManager.stop: is_running = False; if printer_thread.is_alive(): join
Stop ==
    /\ tpc["main"] = "running"
    /\ is_running' = FALSE
    /\ tpc' = [tpc EXCEPT !["main"] =
                  IF tpc["printer"] # "dead" THEN "join" ELSE "stopped"]
    /\ UNCHANGED <<specVars, last_call, nameVars, statusVars, print_queue, lock, plock, calls,
                   message, console, before_stop, enqueued>>

\* printer_thread.join(timeout=1.0) returns: the thread ended or 1 s passed
JoinReturn ==
    /\ tpc["main"] = "join"
    /\ tpc' = [tpc EXCEPT !["main"] = "stopped"]
    /\ UNCHANGED <<specVars, last_call, nameVars, statusVars, print_queue, is_running, lock, plock,
                   calls, message, console, before_stop, enqueued>>

\* sys.exit(main()): the interpreter waits for the non-daemon threads and
\* (the callers, whatever calls they had left) and exits; the consumer is
\* a daemon thread and ends with the process
Exit ==
    /\ tpc["main"] = "stopped"
    /\ \A c \in Callers : tpc[c] = "idle"
    /\ tpc' = [tpc EXCEPT !["main"] = "exited",
                          !["printer"] = IF @ = "dead" THEN "dead" ELSE "killed"]
    /\ UNCHANGED <<specVars, last_call, nameVars, statusVars, print_queue, is_running, lock, plock,
                   calls, message, console, before_stop, enqueued>>

\* a thread inside "with self.lock" of direct_print or _printer_worker
Writer(th) ==
    \/ AcquireLock(th)
    \/ Clear(th)
    \/ WriteStart(th)
    \/ WriteEnd(th)
    \/ Refresh(th)

Caller(c) ==
    \/ PrintCall(c)
    \/ DirectPrintCall(c)
    \/ RedrawStart(c)
    \/ RedrawEnd(c)
    \/ Writer(c)

Printer ==
    \/ LoopTest
    \/ Get
    \/ Writer("printer")

NextPrint ==
    \/ \E c \in Callers : Caller(c)
    \/ Printer
    \/ Stop
    \/ JoinReturn
    \/ Exit

SpecPrint == InitPrint /\ [][NextPrint]_vars

\* the threads are scheduled, and join() does not wait beyond its timeout
SpecPrintFair ==
    /\ SpecPrint
    /\ \A c \in Callers : WF_vars(Caller(c))
    /\ WF_vars(Printer)
    /\ WF_vars(JoinReturn)

\* ---------------------------------------------------------- properties

\* the worker of task t has ended
Done(t) == wpc[t] = "done"

\* the commands issued for task t, by position
Ops(t) == DOMAIN engine[t]

\* command i of task t reports a failed build or run
IsFailure(t, i) ==
    \/ engine[t][i].op \in {"build_raise", "run_raise"}
    \/ /\ engine[t][i].op \in {"build_exit", "run_exit"}
       /\ engine[t][i].code # 0

\* the build of task t exited with code c
BuildExited(t, c) ==
    \E i \in Ops(t) : engine[t][i].op = "build_exit" /\ engine[t][i].code = c

\* the run of task t exited with code c
RunExited(t, c) ==
    \E i \in Ops(t) : engine[t][i].op = "run_exit" /\ engine[t][i].code = c

\* the status recorded for t; a task with no entry yet is pending
StatusOf(st, t) == IF t \in DOMAIN st THEN st[t].status ELSE "pending"

C2_ExitCodeReflectsFailures ==
    (opc = "done" /\ raised = "none") =>
        returned = <<IF \E t \in DOMAIN status : status[t].status # "success"
                     THEN 1 ELSE 0>>

C4_NoRunAfterBuildFailure ==
    \A t \in AllTasks :
        (\E c \in ExitCodes \ {0} : BuildExited(t, c)) =>
            \A i \in Ops(t) : engine[t][i].op \notin {"run", "run_raise", "run_exit"}

C4_Witness ==
    \E t \in AllTasks :
        /\ Done(t)
        /\ \E c \in ExitCodes \ {0} : BuildExited(t, c)
        /\ "run" \notin container_stages[t]

\* C5: a task whose build exited 0 and whose run exited nonzero ends with
\* status run_failed, and unless keepfailed the removal of its container and
\* then of its image were requested after the run exited.
C5_RunFailureRecordedAndCleaned ==
    \A t \in AllTasks : \A c \in ExitCodes \ {0} :
        (Done(t) /\ BuildExited(t, 0) /\ RunExited(t, c)) =>
            /\ status[t].status = "run_failed"
            /\ ~keepfailed =>
                 \E i, j, k \in Ops(t) :
                    /\ i < j /\ j < k
                    /\ engine[t][i].op = "run_exit"
                    /\ engine[t][j].op = "rm"
                    /\ engine[t][k].op = "rmi"

C5_Witness ==
    \E t \in AllTasks :
        /\ Done(t) /\ ~keepfailed
        /\ BuildExited(t, 0) /\ RunExited(t, 1)
        /\ \E k \in Ops(t) : engine[t][k].op = "rmi"

\* C6: with keepfailed, no removal of a container or of an image is
\* requested for a task once its build or its run has failed (nonzero exit
\* code or exception).
C6_KeepFailedNeverRemoves ==
    keepfailed =>
        \A t \in AllTasks : \A i, j \in Ops(t) :
            (i < j /\ IsFailure(t, i)) => engine[t][j].op \notin {"rm", "rmi"}

C6_Witness ==
    /\ keepfailed
    /\ \E t1, t2 \in AllTasks :
          /\ Done(t1) /\ \E i \in Ops(t1) : engine[t1][i].op = "run_raise"
          /\ Done(t2) /\ RunExited(t2, 1)

\* C7: a task whose build exited 0 and whose run exited 0 ends with status
\* success and recorded code 0, and its build and run were both executed.
C7_SuccessRecorded ==
    \A t \in AllTasks :
        (Done(t) /\ BuildExited(t, 0) /\ RunExited(t, 0)) =>
            /\ status[t].status = "success"
            /\ status[t].code = 0
            /\ {"build", "run"} \subseteq container_stages[t]
            /\ \E i, j \in Ops(t) :
                  i < j /\ engine[t][i].op = "build" /\ engine[t][j].op = "run"

C7_Witness ==
    \E t \in AllTasks :
        Done(t) /\ BuildExited(t, 0) /\ RunExited(t, 0) /\ status[t].code = 0

ClaimedTransitions ==
    {<<"pending", "building">>, <<"building", "build_failed">>,
     <<"building", "running">>, <<"running", "run_failed">>,
     <<"running", "success">>, <<"pending", "error">>,
     <<"building", "error">>, <<"running", "error">>}

\* C9, as stated: the status of a task changes only along pending ->
\* building -> build_failed, pending -> building -> running -> run_failed |
\* success, or to error from a status that is not terminal.
C9_ClaimedStateMachine ==
    [][\A t \in AllTasks :
          StatusOf(status', t) # StatusOf(status, t) =>
              <<StatusOf(status, t), StatusOf(status', t)>> \in ClaimedTransitions]_vars

\* the transitions the workers make
RecordedTransitions ==
    {<<"pending", "building">>, <<"building", "build_failed">>,
     <<"building", "run_failed">>, <<"building", "success">>,
     <<"building", "error">>}

\* C9, amended: the status of a task changes only along pending (no entry)
\* -> building -> build_failed | run_failed | success | error: no running
\* status is recorded between building and the outcome of the run, and error
\* is entered from building only.
C9_RecordedStateMachine ==
    [][\A t \in AllTasks :
          StatusOf(status', t) # StatusOf(status, t) =>
              <<StatusOf(status, t), StatusOf(status', t)>> \in RecordedTransitions]_vars

C9_Witness ==
    \E t1, t2 \in AllTasks :
        /\ StatusOf(status, t1) = "run_failed"
        /\ StatusOf(status, t2) = "building" /\ wpc[t2] = "run_wait"

UpdateStageStep(name, stage) ==
    /\ Len(last_call') = 4
    /\ last_call'[2] = name /\ last_call'[3] = stage
    /\ last_call' # last_call \/ container_stages' # container_stages

C12_CounterBoundedMonotonic ==
    /\ [](current <= total_containers)
    /\ [][current' >= current]_vars

C12_Witness ==
    /\ current = total_containers
    /\ current = MaxTasks
    /\ \E t \in Tasks : status[t].status = "error"

\* the threads in the middle of writing a message to the console
Writing == { th \in Threads : tpc[th] = "flush" }

\* C13: with print and direct_print called concurrently, every message
\* reaches the console as one contiguous block: at most one thread is in
\* the middle of a write, what follows the start of a message's write on
\* the console is the end of that write, and what precedes an end is its
\* own start.
C13_MessagesContiguous ==
    /\ Cardinality(Writing) <= 1
    /\ \A i \in DOMAIN console :
          IF console[i][2] = "start"
          THEN i < Len(console) => console[i + 1] = <<console[i][1], "end">>
          ELSE i > 1 /\ console[i - 1] = <<console[i][1], "start">>

C13_Witness ==
    /\ tpc["printer"] = "flush"
    /\ \E c \in Callers : tpc[c] = "lock"
    /\ tpc["main"] = "running"
    /\ \E c \in Callers, k \in 1..MaxCalls :
          Message(c, k) \in Written /\ Message(c, k) \notin before_stop
    /\ Len(console) >= 3

\* C14: no message is being written to the console while a thread holds
\* the progress tracker's lock to redraw the bar.
C14_NoWriteDuringRedraw ==
    Writing # {} => plock = None

\* C15 as claimed: once stop() has returned, or the consumer has ended,
\* every message enqueued before stop() was called is on the console.
C15_DrainedWhenStopReturns ==
    (tpc["main"] \in {"stopped", "exited"} \/ tpc["printer"] = "dead") =>
        before_stop \subseteq Written

\* C15: the consumer leaves its loop only after every message enqueued
\* before stop() was called is on the console; stop() may return earlier.
C15_DrainedWhenConsumerEnds ==
    tpc["printer"] = "dead" =>
        /\ before_stop \subseteq Written
        /\ ~is_running

C15_Witness ==
    /\ tpc["printer"] = "dead"
    /\ tpc["main"] = "stopped"
    /\ Cardinality(before_stop) >= 2
    /\ print_queue # <<>>

\* C16: stop() can always return from its join, whatever the consumer is
\* doing, and does return; once stop() has cleared the flag the consumer
\* ends, and it leaves its loop as soon as it finds the queue empty.
C16_StopReturnsConsumerEnds ==
    /\ [](tpc["main"] = "join" => ENABLED JoinReturn)
    /\ (tpc["main"] = "join") ~> (tpc["main"] # "join")
    /\ (~is_running) ~> (tpc["printer"] \in {"dead", "killed"})
    /\ [][(tpc["printer"] = "loop" /\ ~is_running /\ print_queue = <<>>
           /\ tpc'["printer"] # "loop")
          => tpc'["printer"] \in {"dead", "killed"}]_vars

C16_Witness ==
    /\ tpc["main"] = "stopped"
    /\ tpc["printer"] = "dead"
    /\ print_queue # <<>>

\* the status map printed by the reporting step, if it has started
Reported == { n \in notices : n[1] = "Build Status" }

\* C17: the reporting step starts only after every launched worker has
\* ended: the status map it prints has only terminal entries, and no worker
\* changes the status map afterwards.
C17_ReportAfterAllWorkers ==
    \A n \in Reported :
        /\ \A i \in DOMAIN threads : Done(threads[i])
        /\ \A t \in DOMAIN n[2] : n[2][t].status \in Terminal
        /\ DOMAIN n[2] = { threads[i] : i \in DOMAIN threads }
        /\ n[2] = status

C17_Witness ==
    /\ Reported # {}
    /\ opc = "done"
    /\ Cardinality(DOMAIN status) = MaxTasks
    /\ \E t \in DOMAIN status : status[t].status = "run_failed"

\* the container names the manifest has an entry for
ManifestNames == { line[1] : line \in manifest }

\* C18: after a run that reported, the manifest has exactly one entry per
\* task whose status is not success, each with a debug command, and no
\* manifest is written when every task succeeded.
C18_ManifestListsEveryFailure ==
    (opc = "done" /\ raised = "none") =>
        /\ ManifestNames = { t \in DOMAIN status : status[t].status # "success" }
        /\ Cardinality(manifest) = Cardinality(ManifestNames)
        /\ \A line \in manifest : line[2] # "" /\ line[3] # <<>>

\* platform p of the configuration is rejected: a redhat image without a
\* configured subscription
Rejected(p) == platforms[p].image = "redhat" /\ ~RHEL_SUBSCRIPTION

\* the container names of platform p
NamesOf(p) == { t \in AllTasks : t[1] = platforms[p].name }

\* the step of the platform loops that handles platform p, if it was passed
Passed(p) ==
    \E i \in DOMAIN Steps :
        Steps[i].kind = "skip" /\ Steps[i].name = platforms[p].name /\ ei > i

C20_TaskFailuresIsolated ==
    /\ \A t \in AllTasks :
          /\ wpc[t] \notin {"idle", "done"} => ENABLED Worker(t)
          /\ Done(t) => (t \in DOMAIN status /\ status[t].status \in Terminal)
    /\ (opc = "run" /\ ei > Len(Steps)) =>
          IF ji <= Len(threads)
          THEN Done(threads[ji]) => ENABLED JoinThread
          ELSE ENABLED Report

C20_Witness ==
    \E t1, t2 \in AllTasks :
        /\ threads = <<t1, t2>>
        /\ Done(t1) /\ status[t1].status = "error"
        /\ Done(t2) /\ status[t2].status = "success"
        /\ Reported # {}

\* C21: an exception that escapes the enumeration of the tasks or the
\* reporting is caught by process_all_platforms: its message is put in the
\* queue and the exit code is 1; process_all_platforms always ends with a
\* return value, 0 or 1.
C21_ExceptionsBecomeExitCode1 ==
    /\ opc = "done" => returned \in {<<0>>, <<1>>}
    /\ (opc \in {"finally", "done"} /\ raised # "none") =>
          /\ returned = <<1>>
          /\ <<"Error", raised>> \in notices
    /\ opc = "run" => (raised = "none" /\ returned = <<>>)

C21_Witness ==
    /\ opc = "done"
    /\ raised = "create_dockerfile"
    /\ returned = <<1>>
    /\ Len(threads) = 1
    /\ ~Done(threads[1])

\* the worker of t has ended after an exception left build_image or
\* run_container: no build was launched, or the build exited 0 and no run
\* was launched
LogDirFailed(t) ==
    /\ Done(t)
    /\ \/ \A i \in Ops(t) : engine[t][i].op \notin {"build", "build_raise"}
       \/ /\ BuildExited(t, 0)
          /\ \A i \in Ops(t) : engine[t][i].op \notin {"run", "run_raise"}

\* launching the build or the run subprocess of t raised
LaunchRaised(t) ==
    \E i \in Ops(t) : engine[t][i].op \in {"build_raise", "run_raise"}

LogDirFailedBefore(t) ==
    /\ wpc[t] \in {"finally", "done"}
    /\ \/ \A i \in Ops(t) : engine[t][i].op \notin {"build", "build_raise"}
       \/ /\ BuildExited(t, 0)
          /\ \A i \in Ops(t) : engine[t][i].op \notin {"run", "run_raise"}

InUpdate == { t \in AllTasks : upc[t] \in {"check", "merge", "release"} }

\* C24: at most one worker is inside update_status's read-modify-write, it
\* is the holder of the status lock, and every change of the status map is
\* a step of the holder inside update_status, on its own entry.
C24_StatusUpdatesUnderLock ==
    /\ [](/\ Cardinality(InUpdate) <= 1
          /\ InUpdate = IF status_lock = None THEN {} ELSE {status_lock})
    /\ [][status' # status =>
             /\ status_lock # None
             /\ status_lock' = status_lock
             /\ upc[status_lock] \in {"check", "merge"}
             /\ \A t \in DOMAIN status :
                   t # status_lock => status'[t] = status[t]]_vars

C24_Witness ==
    \E t1, t2 \in Tasks :
        /\ t1 # t2
        /\ upc[t1] = "merge" /\ status_lock = t1
        /\ t1 \in DOMAIN status /\ status[t1] # <<>>
        /\ kwargs[t1].status = "run_failed"
        /\ upc[t2] = "acquire"
        /\ kwargs[t2].status = "building"

\* C25: when the manifest cannot be written, the reporting is completed
\* all the same (the failed containers and their debug commands are put in
\* the queue, no exception is reported) and the exit code is the one the
\* statuses determine.
C25_ManifestFailureIsBestEffort ==
    (opc = "done" /\ raised = "open") =>
        /\ returned = <<IF FailedContainers(status) # {} THEN 1 ELSE 0>>
        /\ <<"Failed containers", FailedContainers(status)>> \in notices
        /\ <<"Error", "open">> \notin notices

\* C26: the orchestrator never waits for a worker without bound: whenever
\* it is at the join of a worker, whatever that worker is doing, the join
\* can return.
C26_JoinNeverBlocks ==
    (opc = "run" /\ ei > Len(Steps) /\ ji <= Len(threads)) =>
        ENABLED JoinThread

\* the positions of the commands of task t with an op of ops
Positions(t, ops) == { i \in Ops(t) : engine[t][i].op \in ops }

\* no command of ops2 of task t without an earlier command of ops1
Precedes(t, ops1, ops2) ==
    \A j \in Positions(t, ops2) : \E i \in Positions(t, ops1) : i < j

\* the build of t was launched only once status building, the image name
\* and the debug command were recorded, and the build finished before the
\* run was launched, which finished before the container and image were
\* removed
PipelineInOrder(t) ==
    /\ Ops(t) # {} =>
          /\ t \in DOMAIN status
          /\ status[t].image_name = get_image_name(t)
          /\ status[t].debug_command =
                <<"docker run --rm -it --entrypoint /bin/bash", get_image_name(t)>>
    /\ Positions(t, {"build", "build_raise"}) # {} =>
          status[t].status # "pending"
    /\ Precedes(t, {"build"}, {"build_exit"})
    /\ \A j \in Positions(t, {"run", "run_raise"}) :
          \E i \in Ops(t) :
             i < j /\ engine[t][i].op = "build_exit" /\ engine[t][i].code = 0
    /\ Precedes(t, {"run"}, {"run_exit"})
    /\ Precedes(t, {"run_exit", "run_raise"}, {"rmi"})

BuildFailed(t) ==
    \/ \E c \in ExitCodes \ {0} : BuildExited(t, c)
    \/ Positions(t, {"build_raise"}) # {}

ExpectedCount ==
    LET RECURSIVE Sum(_)
        Sum(p) == IF p = 0 THEN 0
                  ELSE Sum(p - 1) +
                       (IF Rejected(p) THEN 0
                        ELSE IF "cmake" \in platforms[p].depends
                             THEN Len(cmake_versions) ELSE 1)
    IN Sum(Len(platforms))

\* the tasks a worker was started for
Launched == { threads[i] : i \in DOMAIN threads }

\* C29 as claimed: once process_all_platforms has returned, the number of
\* workers launched is the number of eligible tasks, which is the total of
\* the progress tracker.
C29_WorkersEqualEligibleTasks ==
    opc = "done" =>
        /\ Len(threads) = ExpectedCount
        /\ ExpectedCount = total_containers
        /\ Launched = Tasks

\* C29: the total of the progress tracker is the number of eligible tasks;
\* no task gets two workers and only eligible tasks get one; once the
\* platform loops have ended without an exception every eligible task has
\* its worker; the build and the run of a task are each launched at most
\* once.
C29_OneWorkerPerEligibleTask ==
    LET tasks == Tasks
        launched == Launched
        Once(t, ops) ==
            \A i, j \in Ops(t) :
                (engine[t][i].op \in ops /\ engine[t][j].op \in ops) => i = j
    IN /\ total_containers = ExpectedCount
       /\ Cardinality(tasks) = total_containers
       /\ Cardinality(launched) = Len(threads)
       /\ launched \subseteq tasks
       /\ \A t \in AllTasks : wpc[t] # "idle" <=> t \in launched
       /\ ei > Len(Steps) =>
             /\ launched = tasks
             /\ Len(threads) = total_containers
       /\ \A t \in AllTasks \ launched : engine[t] = <<>>
       /\ \A t \in launched :
             /\ Once(t, {"build", "build_raise"})
             /\ Once(t, {"run", "run_raise"})

C29_Witness ==
    /\ opc = "done"
    /\ raised = "none"
    /\ Len(platforms) = 1
    /\ Len(threads) = MaxTasks
    /\ \A t \in Tasks : Cardinality(Positions(t, {"run"})) = 1

\* C30: after the joins and the report, for every task whose status is not
\* success the failure report (the task's name and status, followed by the
\* contents of its logs) has been put in the print queue.
C30_FailureLogsPrinted ==
    (opc = "done" /\ raised = "none") =>
        \A t \in DOMAIN status :
            status[t].status # "success" =>
                <<"Failure detected", t, status[t].status>> \in notices

\* ------------------------------------------------- the three locks
\* SpecLocks: the threads of SpecPrint, whose callers also call
\* update_status, with the three locks together.

\* ContainerManager.update_status: with self.status_lock entered
UpdateStatusStart(c) ==
    /\ Alive
    /\ tpc[c] = "idle"
    /\ calls < MaxCalls
    /\ LockFree(status_lock)
    /\ calls' = calls + 1
    /\ status_lock' = c
    /\ tpc' = [tpc EXCEPT ![c] = "update"]
    /\ UNCHANGED <<specVars, last_call, nameVars, upc, kwargs, print_queue,
                   is_running, lock, plock, message, console, before_stop, enqueued>>

\* ContainerManager.update_status: the entry is updated, the lock released
UpdateStatusEnd(c) ==
    /\ Alive
    /\ tpc[c] = "update"
    /\ status_lock' = None
    /\ tpc' = [tpc EXCEPT ![c] = "idle"]
    /\ UNCHANGED <<specVars, last_call, nameVars, upc, kwargs, print_queue,
                   is_running, lock, plock, calls, message, console,
                   before_stop, enqueued>>

NextLocks ==
    \/ NextPrint
    \/ \E c \in Callers : UpdateStatusStart(c) \/ UpdateStatusEnd(c)

SpecLocks == InitPrint /\ [][NextLocks]_vars

\* ------------------------------------------- names and manifest text
\* SpecNames: the names process_platform gives the tasks and the text of
\* failed_containers.txt. A text is a sequence of words; the fixed texts
\* of the formats are single words, " " is a space, "-" a dash and "\n"
\* the end of a line.

\* the platform names, versions and cmake versions of the configurations
PlatformTexts ==
    { <<"ubuntu">>, <<"Ubuntu">>, <<"my", " ", "ubuntu">>, <<"my", "-", "ubuntu">> }
PlatformVersions == {"latest", "22.04"}
CMakeTexts == { <<>>, <<"3.20">> }

DebugPrefix == "docker run --rm -it --entrypoint /bin/bash "
DashRule == "--------------------------------------------------"
Whitespace == {" ", "\n"}

\* str.lower, word by word
Lower(w) == IF w = "Ubuntu" THEN "ubuntu" ELSE w

\* sanitize_name: name.lower().replace(' ', '-')
sanitize_name(name) ==
    [i \in DOMAIN name |-> IF Lower(name[i]) = " " THEN "-" ELSE Lower(name[i])]

\* f"-cmake-{cmake_version}" if cmake_version else ""
version_suffix(cmake_version) ==
    IF cmake_version # None THEN <<"-", "cmake", "-", cmake_version>> ELSE <<>>

\* get_container_name, on texts
get_container_name_text(platform, cmake_version) ==
    sanitize_name(platform.name) \o version_suffix(cmake_version)

\* get_image_name, on texts
get_image_name_text(platform, cmake_version) ==
    sanitize_name(<< IF platform.version # "latest"
                     THEN platform.version ELSE platform.image >>)
        \o version_suffix(cmake_version)

\* str.split(sep)
Split(text, sep) ==
    LET RECURSIVE Parts(_, _, _)
        Parts(i, part, parts) ==
            IF i > Len(text) THEN Append(parts, part)
            ELSE IF text[i] = sep THEN Parts(i + 1, <<>>, Append(parts, part))
            ELSE Parts(i + 1, Append(part, text[i]), parts)
    IN Parts(1, <<>>, <<>>)

\* sep.join(parts)
Join(parts, sep) ==
    LET RECURSIVE Joined_(_)
        Joined_(n) == IF n = 0 THEN <<>>
                      ELSE IF n = 1 THEN parts[1]
                      ELSE Joined_(n - 1) \o <<sep>> \o parts[n]
    IN Joined_(Len(parts))

\* get_image_name_from_container, on texts
get_image_name_from_container_text(container_name) ==
    LET parts == Split(container_name, "-")
        found == { i \in DOMAIN parts : parts[i] = <<"cmake">> }
    IN IF found # {}
       THEN LET cmake_idx == CHOOSE i \in found : \A j \in found : i <= j
            IN Join(SubSeq(parts, 1, cmake_idx - 1)
                      \o SubSeq(parts, cmake_idx, Len(parts)), "-")
       ELSE container_name

\* process_platform over the platforms: the (platform, cmake version) pairs
\* a worker is started for, in order
Launches(plats, versions, subscription) ==
    LET Of(p) == [i \in 1..Len(get_platform_cmake_versions(plats[p], versions)) |->
                    [platform |-> plats[p],
                     cmake_version |->
                         get_platform_cmake_versions(plats[p], versions)[i]]]
        RECURSIVE Upto(_)
        Upto(p) == IF p = 0 THEN <<>>
                   ELSE Upto(p - 1) \o
                        (IF can_build_platform(plats[p], subscription)
                         THEN Of(p) ELSE <<>>)
    IN Upto(Len(plats))

\* LogManager.write_failed_containers: the text written for the failed
\* names, in the order of the status map
WriteFailedContainers(failed) ==
    LET RECURSIVE Text(_)
        Text(n) == IF n = 0 THEN <<>>
                   ELSE Text(n - 1) \o failed[n] \o <<": ", DebugPrefix>>
                          \o get_image_name_from_container_text(failed[n])
                          \o <<"\n">>
    IN Text(Len(failed))

\* str.strip
Strip(text) ==
    LET kept == { i \in DOMAIN text : text[i] \notin Whitespace }
    IN IF kept = {} THEN <<>>
       ELSE SubSeq(text, CHOOSE i \in kept : \A j \in kept : i <= j,
                         CHOOSE i \in kept : \A j \in kept : i >= j)

\* re.search(label + '(.+)', section): <<>> when there is no match, else
\* <<group(1)>>: the rest of the line after the first label that something
\* follows on its line
Search(section, label) ==
    LET at == { i \in DOMAIN section :
                  /\ section[i] = label
                  /\ i < Len(section)
                  /\ section[i + 1] # "\n" }
    IN IF at = {} THEN <<>>
       ELSE LET first == CHOOSE i \in at : \A j \in at : i <= j
                ends == { j \in (first + 1)..Len(section) : section[j] = "\n" }
                last == IF ends = {} THEN Len(section)
                        ELSE (CHOOSE j \in ends : \A k \in ends : j <= k) - 1
            IN << SubSeq(section, first + 1, last) >>

\* ContainerDebugger.parse_failed_containers: the records by container name
parse_failed_containers(content) ==
    LET sections == Split(content, DashRule)
        Group(section, label, default) ==
            IF Search(section, label) = <<>> THEN default
            ELSE Strip(Search(section, label)[1])
        RECURSIVE Parsed(_)
        Parsed(n) ==
            IF n = 0 THEN <<>>
            ELSE IF Strip(sections[n]) = <<>>
                    \/ Search(sections[n], "Container: ") = <<>>
                 THEN Parsed(n - 1)
                 ELSE LET name == Strip(Search(sections[n], "Container: ")[1])
                          info == [status |-> Group(sections[n], "Status: ", <<"unknown">>),
                                   image |-> Group(sections[n], "Image: ", <<"unknown">>),
                                   debug_command |->
                                       Group(sections[n], "Debug Command: ", <<>>)]
                      IN [k \in (DOMAIN Parsed(n - 1)) \cup {name} |->
                            IF k = name THEN info ELSE Parsed(n - 1)[k]]
    IN Parsed(Len(sections))

\* the configurations: one or two platforms with different names, any
\* images and versions, with or without the cmake dependency
InitNames ==
    /\ \E n \in 1..2 :
          platforms \in [1..n -> [name : PlatformTexts, image : Images,
                                  version : PlatformVersions,
                                  depends : {{}, {"cmake"}}]]
    /\ \A p, q \in DOMAIN platforms :
          platforms[p].name = platforms[q].name => p = q
    /\ cmake_versions \in CMakeTexts
    /\ RHEL_SUBSCRIPTION \in BOOLEAN
    /\ keepfailed = FALSE
    /\ total_containers =
          TotalContainers(platforms, cmake_versions, RHEL_SUBSCRIPTION)
    /\ total_containers \in 1..MaxTasks
    /\ status = <<>>
    /\ current = 0
    /\ container_stages = <<>>
    /\ closed = FALSE
    /\ threads = <<>>
    /\ wpc = [t \in AllTasks |-> "idle"]
    /\ build_success = [t \in AllTasks |-> FALSE]
    /\ run_success = [t \in AllTasks |-> FALSE]
    /\ exc = [t \in AllTasks |-> None]
    /\ engine = [t \in AllTasks |-> <<>>]
    /\ notices = {}
    /\ manifest = {}
    /\ opc = "run"
    /\ ei = 1
    /\ ji = 1
    /\ raised = "none"
    /\ returned = <<>>
    /\ last_call = <<>>
    /\ print_queue = <<>>
    /\ is_running = TRUE
    /\ lock = None
    /\ plock = None
    /\ tpc = [th \in Threads |->
                 IF th = "printer" THEN "loop"
                 ELSE IF th = "main" THEN "running" ELSE "idle"]
    /\ message = [th \in Threads |-> NoMessage]
    /\ calls = 0
    /\ console = <<>>
    /\ before_stop = {}
    /\ enqueued = {}
    /\ status_lock = None
    /\ upc = [t \in AllTasks |-> "idle"]
    /\ kwargs = [t \in AllTasks |-> <<>>]
    /\ workers = <<>>
    /\ file = <<>>
    /\ failed_containers = <<>>

\* what the actions of SpecNames leave alone
nameFrame == <<cfgVars, workerLocals, threads, ji, raised, returned, manifest,
               closed, current, container_stages, wpc, engine, notices,
               last_call, printVars, statusVars>>

\* process_platform: the names of the next task, and its thread started
StartWorker ==
    LET launches == Launches(platforms, cmake_versions, RHEL_SUBSCRIPTION)
    IN /\ opc = "run"
       /\ ei <= Len(launches)
       /\ LET container_name ==
                  get_container_name_text(launches[ei].platform,
                                          launches[ei].cmake_version)
          IN workers' = Append(workers,
                 [container_name |-> container_name,
                  image_name |-> get_image_name_text(launches[ei].platform,
                                                     launches[ei].cmake_version),
                  dockerfile_path |-> <<"build/Dockerfile.">> \o container_name,
                  log_dir |-> <<"logs/">> \o container_name,
                  pc |-> "record_build_start"])
       /\ ei' = ei + 1
       /\ UNCHANGED <<nameFrame, opc, status, file, failed_containers>>

\* docker_worker of the i-th thread: container.record_build_start()
WorkerRecordStart(i) ==
    /\ workers[i].pc = "record_build_start"
    /\ status' = update_status(status, workers[i].container_name,
                     [status |-> "building",
                      image_name |-> workers[i].image_name,
                      debug_command |-> <<DebugPrefix>> \o workers[i].image_name])
    /\ workers' = [workers EXCEPT ![i].pc = "build"]
    /\ UNCHANGED <<nameFrame, opc, ei, file, failed_containers>>

\* docker_worker of the i-th thread: the build and what is recorded of it
WorkerBuild(i, ok) ==
    /\ workers[i].pc = "build"
    /\ IF ok
       THEN /\ workers' = [workers EXCEPT ![i].pc = "run"]
            /\ UNCHANGED status
       ELSE /\ status' = record_build_failure(status, workers[i].container_name,
                                              workers[i].log_dir)
            /\ workers' = [workers EXCEPT ![i].pc = "done"]
    /\ UNCHANGED <<nameFrame, opc, ei, file, failed_containers>>

\* docker_worker of the i-th thread: the run and what is recorded of it
WorkerRun(i, ok) ==
    /\ workers[i].pc = "run"
    /\ status' = record_run_completion(status, workers[i].container_name, ok,
                                       workers[i].log_dir)
    /\ workers' = [workers EXCEPT ![i].pc = "done"]
    /\ UNCHANGED <<nameFrame, opc, ei, file, failed_containers>>

\* process_all_platforms after the joins: write_failed_containers, with
\* the failed names in any order the status map may have
WriteManifest ==
    /\ opc = "run"
    /\ ei > Len(Launches(platforms, cmake_versions, RHEL_SUBSCRIPTION))
    /\ \A i \in DOMAIN workers : workers[i].pc = "done"
    /\ LET names == FailedContainers(status)
       IN IF names = {} THEN UNCHANGED file
          ELSE \E failed \in [1..Cardinality(names) -> names] :
                  /\ \A i, j \in DOMAIN failed : failed[i] = failed[j] => i = j
                  /\ file' = WriteFailedContainers(failed)
    /\ opc' = "written"
    /\ UNCHANGED <<nameFrame, ei, status, workers, failed_containers>>

\* debug_container.py: ContainerDebugger.parse_failed_containers
ParseManifest ==
    /\ opc = "written"
    /\ failed_containers' = parse_failed_containers(file)
    /\ opc' = "parsed"
    /\ UNCHANGED <<nameFrame, ei, status, workers, file>>

NextNames ==
    \/ StartWorker
    \/ \E i \in DOMAIN workers :
          \/ WorkerRecordStart(i)
          \/ \E ok \in BOOLEAN : WorkerBuild(i, ok)
          \/ \E ok \in BOOLEAN : WorkerRun(i, ok)
    \/ WriteManifest
    \/ ParseManifest

SpecNames == InitNames /\ [][NextNames]_vars

\* C31: once the manifest a run wrote has been parsed, the parser has
\* exactly one record per failed task, holding the status, the image and
\* the debug command the orchestrator recorded for that task.
C31_ManifestRoundTrip ==
    opc = "parsed" =>
        LET failed == { n \in DOMAIN status : status[n].status # "success" }
        IN /\ DOMAIN failed_containers = failed
           /\ \A n \in failed :
                 failed_containers[n] =
                     [status |-> <<status[n].status>>,
                      image |-> status[n].image_name,
                      debug_command |-> status[n].debug_command]

\* C32: every failed task of the manifest has a line there with the debug
\* command that record_build_start put in the task's status entry.
C32_ManifestHasRecordedDebugCommand ==
    opc \in {"written", "parsed"} =>
        \A n \in FailedContainers(status) :
            \E l \in DOMAIN Split(file, "\n") :
                Split(file, "\n")[l] = n \o <<": ">> \o status[n].debug_command

\* C33: no two workers have the same container name, the same Dockerfile
\* path or the same log directory.
C33_ContainerNamesUnique ==
    \A i, j \in DOMAIN workers :
        i # j => /\ workers[i].container_name # workers[j].container_name
                 /\ workers[i].dockerfile_path # workers[j].dockerfile_path
                 /\ workers[i].log_dir # workers[j].log_dir

\* C35: two workers with different container names that are both building
\* or running have different image names.
C35_ImageNamesUnique ==
    \A i, j \in DOMAIN workers :
        (/\ workers[i].container_name # workers[j].container_name
         /\ workers[i].pc \in {"build", "run"}
         /\ workers[j].pc \in {"build", "run"})
            => workers[i].image_name # workers[j].image_name

C36_OneIncrementPerWorker ==
    /\ [](current = Cardinality({ t \in AllTasks : Done(t) }))
    /\ []((\A i \in DOMAIN threads : Done(threads[i])) => current = Len(threads))
    /\ [][\A t \in AllTasks :
            (wpc[t] # "done" /\ wpc'[t] = "done") => current' = current + 1]_vars
    /\ [][current' # current =>
            \E t \in AllTasks : wpc[t] # "done" /\ wpc'[t] = "done"]_vars

C36_Witness ==
    \E t1, t2 \in Tasks :
        /\ Done(t1) /\ status[t1].status = "error"
        /\ Done(t2) /\ status[t2].status = "run_failed"
        /\ current = 2
        /\ Len(threads) = 2

\* the positions of the console where the write of message m starts
Starts(m) == { i \in DOMAIN console : console[i] = <<m, "start">> }

\* C37: a message put in the queue is written at most once, and it is in
\* at most one place (in the queue, with the consumer, on the console); a
\* message on the console that was put in the queue is preceded there by
\* every message put in the queue before it.
C37_QueueIsFifo ==
    \A m \in enqueued :
        /\ Cardinality(Starts(m))
             + Cardinality({ i \in DOMAIN print_queue : print_queue[i] = m })
             + (IF message["printer"] = m /\ Starts(m) = {} THEN 1 ELSE 0) <= 1
        /\ \A earlier \in enqueued :
              (earlier[2] < m[2] /\ Starts(m) # {}) =>
                  \E i \in Starts(earlier) : \A j \in Starts(m) : i < j

C37_Witness ==
    /\ Cardinality(enqueued) = MaxCalls
    /\ enqueued \subseteq Written
    /\ \E k1, k2 \in 1..MaxCalls :
          k1 # k2 /\ {Message("worker1", k1), Message("worker1", k2)} \subseteq enqueued
    /\ \E k \in 1..MaxCalls : Message("worker2", k) \in enqueued

\* C38: once the orchestrator has closed the progress bar and stopped the
\* print manager, no step changes the status map, the stages or the counter
\* of the progress tracker.
C38_NoUpdateAfterClose ==
    [][closed => /\ status' = status
                 /\ container_stages' = container_stages
                 /\ current' = current]_vars

====
